---------------------------- MODULE Spec2Model ----------------------------
(***************************************************************************)
(* Crystal filter middleware: the filter execution controller              *)
(* (crystal_filter_control.py, CrystalFilterControl.execute_filters) and   *)
(* the per-request handler with its eligibility predicate and its three    *)
(* lifecycle hooks (handlers/base.py, CrystalBaseHandler).                 *)
(*                                                                         *)
(* One handler serves one request.  The handler holds a swob Request       *)
(* (object "req"), the surrounding pipeline holds the Response (object     *)
(* "resp"); a hook is one action that runs the whole call, the controller  *)
(* loop and the engines' invocations included.                             *)
(*                                                                         *)
(* Further specifications take the same state through sequences of hooks   *)
(* (SpecSeq), assignments to handler.request (SpecVaco), controller calls  *)
(* of two threads interleaved step by step (SpecConc) and the Singleton    *)
(* metaclass under concurrent construction calls (SpecSingle).             *)
(***************************************************************************)
EXTENDS Naturals, Sequences, FiniteSets, TLC

(***************************************************************************)
(* Bounds of the model.                                                    *)
(***************************************************************************)
\* Largest number of hook / controller calls made on one handler.
MaxCalls == 1
\* Largest number of hook calls made on one handler when sequences of hooks
\* are explored.
MaxSeq == 2
\* Largest number of assignments to handler.request made by code other
\* than the hooks.
MaxAssign == 2
\* Largest number of construction calls one thread makes.
MaxCtor == 2
\* Largest number of reads of is_crystal_valid_request on one handler.
MaxChecks == 2

\* Values the ordering keys are drawn from: a filter set holds at most three
\* filters (2 and 10 are ordered one way as numbers, the other as text).
KeyVals == {2, 3, 10}

(***************************************************************************)
(* Python values.                                                          *)
(***************************************************************************)
\* An ordering key: the int v, or the str whose text is the decimal
\* numeral of v.
IntKey(v) == [t |-> "int", v |-> v]
StrKey(v) == [t |-> "str", v |-> v]

\* str(n): the decimal digits of n, most significant first.
RECURSIVE Digits(_)
Digits(n) == IF n < 10 THEN <<n>> ELSE Append(Digits(n \div 10), n % 10)

\* Python's comparison of two str values (lexicographic by character).
RECURSIVE LexLess(_, _)
LexLess(a, b) ==
    IF b = <<>> THEN FALSE
    ELSE IF a = <<>> THEN TRUE
    ELSE IF Head(a) # Head(b) THEN Head(a) < Head(b)
    ELSE LexLess(Tail(a), Tail(b))

\* Python 2's "<" on keys: ints by value, strs by text, an int before any
\* str.
KeyLess(a, b) ==
    IF a.t = "int" /\ b.t = "int" THEN a.v < b.v
    ELSE IF a.t = "str" /\ b.t = "str" THEN LexLess(Digits(a.v), Digits(b.v))
    ELSE a.t = "int"

\* All orders in which a dict with key set S can be iterated.
Perms(S) ==
    {s \in [1..Cardinality(S) -> S] : \A i, j \in 1..Cardinality(S) : i # j => s[i] # s[j]}

\* The keys a sequence of keys holds.
Range(s) == {s[i] : i \in DOMAIN s}

\* A new dict / an entry stored in a dict.
EmptyDict == <<>>
DictSet(d, key, val) == [k \in (DOMAIN d) \cup {key} |-> IF k = key THEN val ELSE d[k]]


\* sorted(): Python's sort of a list of keys, ascending by "<".
RECURSIVE Insert(_, _)
Insert(k, s) ==
    IF s = <<>> THEN <<k>>
    ELSE IF KeyLess(k, Head(s)) THEN <<k>> \o s
    ELSE <<Head(s)>> \o Insert(k, Tail(s))

RECURSIVE sorted(_)
sorted(s) == IF s = <<>> THEN <<>> ELSE Insert(Head(s), sorted(Tail(s)))

(***************************************************************************)
(* The delegation header: json.dumps of a dict, and its decoding.          *)
(***************************************************************************)
\* A header that is not set.
NoHeader == [present |-> FALSE, items |-> <<>>]

\* The name json.dumps writes for a dict key: the numeral str(k) of an int
\* key, the text itself of a str key.  A JSON name is always text.
JsonName(key) == key.v

\* json.dumps(d): the JSON object text, one name/value pair per entry in
\* the dict's iteration order.
JsonDumps(d, order) ==
    [present |-> TRUE,
     items |-> [i \in 1..Len(order) |-> [k |-> JsonName(order[i]), v |-> d[order[i]]]]]

\* json.loads(text): a dict keyed by the names, which are strs; a name that
\* occurs twice keeps its last value.
RECURSIVE JsonLoadsItems(_, _)
JsonLoadsItems(items, d) ==
    IF items = <<>> THEN d
    ELSE JsonLoadsItems(Tail(items), DictSet(d, StrKey(Head(items).k), Head(items).v))

JsonLoads(h) == JsonLoadsItems(h.items, EmptyDict)

(***************************************************************************)
(* Body streams.                                                           *)
(***************************************************************************)
\* app_iter = None
NoneStream == [src |-> "None", chain |-> <<>>]
\* The body the request arrived with (environ['wsgi.input']).
OrigInput == [src |-> "wsgi.input", chain |-> <<>>]
\* The iterator the response was built with (resp.app_iter).
OrigIter == [src |-> "app_iter", chain |-> <<>>]
\* An attribute the object does not carry.
NoAttr == [src |-> "unset", chain |-> <<>>]
\* No stream: the engine raised.
NoOutput == [src |-> "raised", chain |-> <<>>]
\* The stream an engine returns for filter `key` reading stream `in`.
EngineOut(key, in) == [src |-> "engine", chain |-> Append(in.chain, key)]

(***************************************************************************)
(* CrystalFilterControl.execute_filters                                    *)
(***************************************************************************)
\* No exception is in flight.
NoException == [cls |-> "None", raised_by |-> "None", main |-> "None"]

\* The exception an engine raises: an object of the engine's own making.
\* The engine call sits in no try block, so this object is what leaves
\* execute_filters; nothing of filter_data is put on it by the controller.
EngineException(engine) == [cls |-> "Exception", raised_by |-> engine, main |-> "None"]

\* The locals of one call before the loop.
ExecInit ==
    [on_other_server |-> EmptyDict,
     filter_executed |-> FALSE,
     storlet_gw |-> FALSE,
     gw_setups |-> 0,
     app_iter |-> NoneStream,
     log |-> <<>>,
     raised |-> FALSE,
     exc |-> NoException]

\* Slip: the engine is handed None, not the current stream.
InvokeUnchained(st, key, engine, fails) ==
    IF key \in fails
    THEN [st EXCEPT !.log = Append(@, [key |-> key, engine |-> engine,
                                       input |-> NoneStream, output |-> NoOutput]),
                    !.raised = TRUE,
                    !.exc = EngineException(engine)]
    ELSE [st EXCEPT !.log = Append(@, [key |-> key, engine |-> engine,
                                       input |-> NoneStream,
                                       output |-> EngineOut(key, NoneStream)]),
                    !.app_iter = EngineOut(key, NoneStream),
                    !.filter_executed = TRUE]

\* One engine invocation: the storlet gateway's execute_storlet or a native
\* filter's execute.  The engine of a key in `fails` raises.
Invoke(st, key, engine, fails) ==
    IF key \in fails
    THEN [st EXCEPT !.log = Append(@, [key |-> key, engine |-> engine,
                                       input |-> st.app_iter, output |-> NoOutput]),
                    !.raised = TRUE,
                    !.exc = EngineException(engine)]
    ELSE [st EXCEPT !.log = Append(@, [key |-> key, engine |-> engine,
                                       input |-> st.app_iter,
                                       output |-> EngineOut(key, st.app_iter)]),
                    !.app_iter = EngineOut(key, st.app_iter),
                    !.filter_executed = TRUE]

\* The tier test of the loop body.
IsLocal(srv, filter_data) == filter_data.execution_server = srv

\* Slip: the else of the tier test is lost, every filter is delegated too.
ExecStepAlsoDelegates(srv, st, key, filter_data, fails) ==
    LET st1 == [st EXCEPT !.on_other_server = DictSet(@, key, filter_data)] IN
    IF IsLocal(srv, filter_data)
    THEN Invoke(st1, key, IF filter_data.type = "storlet" THEN "storlet" ELSE "native", fails)
    ELSE st1

\* Slip: the filter is marked as forwarded before it is collected.
ExecStepMarksDelegated(srv, st, key, filter_data, fails) ==
    IF IsLocal(srv, filter_data)
    THEN IF filter_data.type = "storlet"
         THEN Invoke([st EXCEPT !.storlet_gw = TRUE,
                                !.gw_setups = IF st.storlet_gw THEN @ ELSE @ + 1],
                     key, "storlet", fails)
         ELSE Invoke(st, key, "native", fails)
    ELSE [st EXCEPT !.on_other_server =
                       DictSet(@, key, [filter_data EXCEPT !.when = "delegated"])]

\* The loop body for one key.
ExecStep(srv, st, key, filter_data, fails) ==
    IF IsLocal(srv, filter_data)
    THEN IF filter_data.type = "storlet"
         THEN Invoke([st EXCEPT !.storlet_gw = TRUE,
                                !.gw_setups = IF st.storlet_gw THEN @ ELSE @ + 1],
                     key, "storlet", fails)
         ELSE Invoke(st, key, "native", fails)
    ELSE [st EXCEPT !.on_other_server = DictSet(@, key, filter_data)]

\* for key in <keys>: ...; an exception leaves the loop.
RECURSIVE ExecLoop(_, _, _, _, _)
ExecLoop(srv, keys, filter_exec_list, fails, st) ==
    IF keys = <<>> \/ st.raised THEN st
    ELSE ExecLoop(srv, Tail(keys), filter_exec_list, fails,
                  ExecStep(srv, st, Head(keys), filter_exec_list[Head(keys)], fails))

\* if on_other_server: req_resp.headers['CRYSTAL-FILTERS'] = json.dumps(...)
AttachHeader(o, st, dump_order) ==
    IF DOMAIN st.on_other_server # {}
    THEN [o EXCEPT !.cf = JsonDumps(st.on_other_server, dump_order)]
    ELSE o

\* Slip: the isinstance test is inverted.
AttachBodySwapped(o, st) ==
    IF st.filter_executed
    THEN IF o.kind = "Request"
         THEN [o EXCEPT !.app_iter = st.app_iter]
         ELSE [o EXCEPT !.wsgi_input = st.app_iter]
    ELSE o

\* if filter_executed: the body of a Request is its input stream, of a
\* response its iterator.
AttachBody(o, st) ==
    IF st.filter_executed
    THEN IF o.kind = "Request"
         THEN [o EXCEPT !.wsgi_input = st.app_iter]
         ELSE [o EXCEPT !.app_iter = st.app_iter]
    ELSE o

\* Slip: the loop runs over the dict itself, in its iteration order.
LoopKeysUnsorted(iter_order) == iter_order

\* The keys in the order the loop visits them.
LoopKeys(iter_order) == sorted(iter_order)

\* The locals at the end of the loop of execute_filters(req_resp, d, ...),
\* d iterated in iter_order.
ExecRun(srv, filter_exec_list, iter_order, fails) ==
    ExecLoop(srv, LoopKeys(iter_order), filter_exec_list, fails, ExecInit)

\* The resources a call with locals st has opened: the stream the last
\* successful engine returned (it wraps the streams before it) and the
\* storlet gateway.
Opened(st) ==
    (IF st.app_iter.src = "engine" THEN {"app_iter"} ELSE {}) \cup
    (IF st.storlet_gw THEN {"storlet_gw"} ELSE {})

\* The resources execute_filters closes before an exception leaves it: the
\* function has no try/finally and calls no close().
ClosedOnError(st) == {}

\* Slip: the header and the body are attached in a finally block.
ExecResultAttachesAlways(o, st, dump_order) ==
    AttachBody(AttachHeader(o, st, dump_order), st)

\* req_resp after the call; untouched when an engine raised.
ExecResult(o, st, dump_order) ==
    IF st.raised THEN o ELSE AttachBody(AttachHeader(o, st, dump_order), st)

(***************************************************************************)
(* State.                                                                  *)
(***************************************************************************)
VARIABLES
    server,        \* conf['execution_server'] of the handler and the controller
    sds_containers,\* handler.sds_containers: the three reserved containers
    container,     \* handler._container
    obj,           \* handler._obj
    account_meta,  \* the account's 'storlet-enabled' metadata ("" + absent)
    filter_list,   \* the filter set resolved for the request: key -> filter_data
    objs,          \* the Request "req" and the Response "resp"
    request,       \* handler._request: the object the handler holds
    call,          \* the last hook / controller call, as it ended
    ncalls,        \* calls made on this handler
    valid,         \* reads of is_crystal_valid_request, and the last value
    lookups,       \* get_account_info calls issued
    peer_list,     \* the filter set the peer tier decoded from the header
    threads,       \* request threads inside execute_filters: position, arguments
    frames,        \* the locals of each thread's execute_filters call
    api_version,   \* handler._api_version
    account,       \* handler._account
    vaco_of,       \* per Request object: what _parse_vaco gives while it is held
    assigned,      \* the assignments to handler.request, and how the last ended
    instances,     \* Singleton._instances: class -> instance
    built,         \* the CrystalFilterControl objects constructed so far
    ctor           \* request threads inside Singleton.__call__

\* The state of the Singleton metaclass.
single_vars == <<instances, built, ctor>>

\* The request property's derived fields and inputs.
vaco_vars == <<api_version, account, vaco_of, assigned>>

\* The state of concurrent controller calls.
conc_vars == <<threads, frames>>

vars == <<server, sds_containers, container, obj, account_meta, filter_list,
          objs, request, call, ncalls, valid, lookups, peer_list, conc_vars,
          vaco_vars,
                   single_vars>>

(***************************************************************************)
(* Filter sets.                                                            *)
(***************************************************************************)
Tiers == {"proxy", "object"}
Whens == {"on_pre_get", "on_post_get", "on_pre_put"}

\* filter_data: the fields the controller and the hooks read.
FilterData(tier, type, when) ==
    [execution_server |-> tier, type |-> type, when |-> when,
     main |-> IF type = "storlet" THEN "compress-1.0.jar" ELSE "filters.noop.NoopFilter"]

FilterDatas == {FilterData(s, t, w) : s \in Tiers, t \in {"storlet", "native"}, w \in Whens}

KeySets == SUBSET {IntKey(v) : v \in KeyVals}

\* The filter sets a resolver hands a handler: distinct int keys, filters of
\* any lifecycle point.
FilterLists == UNION {[S -> FilterDatas] : S \in KeySets}

\* The filter sets whose filters share one lifecycle point.
OnePointLists ==
    UNION {[S -> {fd \in FilterDatas : fd.when = w}] : S \in KeySets, w \in Whens}

\* Of `lists`, the sets the proxy tier can delegate: every filter is the
\* object tier's.
Delegable(lists) ==
    {d \in lists : DOMAIN d # {} /\ \A k \in DOMAIN d : d[k].execution_server = "object"}

(***************************************************************************)
(* Objects.                                                                *)
(***************************************************************************)
\* A swob Request: headers['CRYSTAL-FILTERS'], headers['Transfer-Encoding'],
\* environ['CONTENT_LENGTH'], environ['wsgi.input'].
NewRequest(cf, cl) ==
    [kind |-> "Request", cf |-> cf, te |-> "absent", cl |-> cl,
     wsgi_input |-> OrigInput, app_iter |-> NoAttr]

\* A response: headers['CRYSTAL-FILTERS'], app_iter.
NewResponse ==
    [kind |-> "Response", cf |-> NoHeader, te |-> "absent", cl |-> "absent",
     wsgi_input |-> NoAttr, app_iter |-> OrigIter]

\* The peer tier has decoded nothing.
NotDecoded == [decoded |-> FALSE, from |-> "None", filters |-> EmptyDict]

\* No call yet.
NoCall ==
    [op |-> "none", target |-> "None", invoked |-> FALSE, passed |-> EmptyDict,
     st |-> ExecInit, ctl_ret |-> "None", ret |-> "None", before |-> <<>>,
     fired |-> <<>>]

(***************************************************************************)
(* Python values of the eligibility predicate.                             *)
(***************************************************************************)
PyNone == [ty |-> "NoneType", s |-> "", b |-> FALSE]
PyStr(s) == [ty |-> "str", s |-> s, b |-> FALSE]
PyBool(b) == [ty |-> "bool", s |-> "", b |-> b]
\* bool(x)
Truthy(x) == IF x.ty = "bool" THEN x.b ELSE IF x.ty = "str" THEN x.s # "" ELSE FALSE
\* x and y
PyAnd(x, y) == IF Truthy(x) THEN y ELSE x

(***************************************************************************)
(* Initial states: a handler as constructed for one request.               *)
(***************************************************************************)
InitObjects(cf) ==
    /\ \E cl \in {"absent", "present"} :
          objs = [id \in {"req", "resp"} |->
                    IF id = "req" THEN NewRequest(cf, cl) ELSE NewResponse]
    /\ request = "req"
    /\ call = NoCall
    /\ ncalls = 0
    /\ peer_list = NotDecoded

InitNoCheck ==
    /\ valid = [n |-> 0, value |-> PyNone]
    /\ lookups = 0

\* The request threads that share the controller.
Threads == {"t1", "t2"}

\* A thread that has not entered execute_filters.
IdleThread ==
    [pc |-> "idle", target |-> "None", passed |-> EmptyDict, fails |-> {},
     keys |-> <<>>, done |-> 0, before |-> NoAttr]

\* No thread is inside the controller.
InitNoThreads ==
    /\ threads = [t \in Threads |-> IdleThread]
    /\ frames = [t \in Threads |-> ExecInit]

\* The filter set was resolved on this tier.
InitResolved(lists) ==
    /\ server \in Tiers
    /\ filter_list \in lists
    /\ InitObjects(NoHeader)

\* The handler of the object tier, for a request the proxy tier forwarded
\* with a delegation header: the filter set is the decoded header.
InitDelegated(lists) ==
    /\ server = "object"
    /\ \E d \in Delegable(lists) : \E order \in Perms(DOMAIN d) :
          /\ filter_list = JsonLoads(JsonDumps(d, order))
          /\ InitObjects(JsonDumps(d, order))

\* What _parse_vaco() returns: the four fields, or a ValueError.
Vaco(v, a, c, o) == [ok |-> TRUE, api_version |-> v, account |-> a, container |-> c, obj |-> o]
ValueError == [ok |-> FALSE, api_version |-> PyNone, account |-> PyNone,
               container |-> PyNone, obj |-> PyNone]

\* No assignment to handler.request since the constructor's.
NoAssign == [n |-> 0, to |-> "None", exc |-> "None", old |-> <<>>]

\* The constructor's self.request = request went through: the fields are
\* the parse of the request.
InitFields ==
    /\ vaco_of["req"].ok
    /\ api_version = vaco_of["req"].api_version
    /\ account = vaco_of["req"].account
    /\ container = vaco_of["req"].container
    /\ obj = vaco_of["req"].obj
    /\ assigned = NoAssign

\* The class governed by the metaclass.
Cls == "CrystalFilterControl"

\* A thread outside Singleton.__call__.
IdleCtor == [pc |-> "idle", conf |-> "None", made |-> 0, result |-> 0, calls |-> 0]

\* The middleware has constructed its controller: one instance, stored.
InitController ==
    /\ instances = DictSet(EmptyDict, Cls, 1)
    /\ built = <<[conf |-> "conf_a"]>>
    /\ ctor = [t \in Threads |-> IdleCtor]

\* The handler's configuration and account.
InitConf ==
    /\ sds_containers = <<PyStr("storlet"), PyStr("dependency"), PyStr("docker_images")>>
    /\ account_meta = "True"
    /\ InitNoCheck
    /\ InitNoThreads

\* A handler for an object request of an account with filtering enabled.
InitHandler ==
    /\ InitConf
    /\ InitController
    /\ vaco_of = [r \in {"req"} |->
                    Vaco(PyStr("v1"), PyStr("AUTH_a"), PyStr("data"), PyStr("o"))]
    /\ InitFields

\* The controller is handed filter sets of one lifecycle point.
Init ==
    /\ InitHandler
    /\ (InitResolved(OnePointLists) \/ InitDelegated(OnePointLists))

\* The hooks are handed filter sets of mixed lifecycle points.
InitHooks ==
    /\ InitHandler
    /\ (InitResolved(FilterLists) \/ InitDelegated(FilterLists))

(***************************************************************************)
(* The controller call and the hooks.                                      *)
(***************************************************************************)
\* The engines that may fail during one call: none, or the engine of one
\* filter of this tier.
FailChoices(srv, passed) ==
    {{}} \cup {{k} : k \in {x \in DOMAIN passed : IsLocal(srv, passed[x])}}

\* Slip: the lifecycle point is not tested.
SelectedAll(filters, when) == filters

\* filtered_filter_list: the entries of filter_list registered for `when`.
Selected(filters, when) ==
    [k \in {x \in DOMAIN filters : filters[x].when = when} |-> filters[k]]

\* The record of a hook that found nothing to run and did not call the
\* controller.
Skipped(op, target, ret) ==
    [op |-> op, target |-> target, invoked |-> FALSE, passed |-> EmptyDict,
     st |-> ExecInit, ctl_ret |-> "None", ret |-> ret, before |-> objs,
     fired |-> call.fired]

\* The record of a call of execute_filters(target, passed, ...) that ended
\* with locals st; `fired` lists the calls on this handler that ran the
\* controller to its return, oldest first.
Called(op, target, passed, st, ret) ==
    [op |-> op, target |-> target, invoked |-> TRUE, passed |-> passed,
     st |-> st,
     ctl_ret |-> IF st.raised THEN "raised" ELSE target,
     ret |-> IF st.raised THEN "raised" ELSE ret,
     before |-> objs,
     fired |-> IF st.raised THEN call.fired ELSE Append(call.fired, op)]

\* Slip: the content length is left in place.
PrePutHeadersKeepLength(o) == [o EXCEPT !.te = "chunked"]

\* apply_filters_on_pre_put, after the controller returned: drop the
\* content length, switch to chunked transfer.
PrePutHeaders(o) == [o EXCEPT !.cl = "absent", !.te = "chunked"]

\* What hook `op` does to the object the controller returned.
AfterCall(op, o) == IF op = "pre_put" THEN PrePutHeaders(o) ELSE o

\* The hook does not assign handler.request.
KeepRequest == UNCHANGED <<request, api_version, account, container, obj, assigned>>

\* handler.request = r: the property's setter.  The request is stored,
\* then _extract_vaco() assigns the four fields from one _parse_vaco()
\* result; a ValueError of the parse leaves as NotCrystalRequest, after the
\* store.
Setter(r) ==
    /\ request' = r
    /\ assigned' = [n |-> assigned.n + 1, to |-> r,
                    exc |-> IF vaco_of[r].ok THEN "None" ELSE "NotCrystalRequest",
                    old |-> <<api_version, account, container, obj>>]
    /\ IF vaco_of[r].ok
       THEN /\ api_version' = vaco_of[r].api_version
            /\ account' = vaco_of[r].account
            /\ container' = vaco_of[r].container
            /\ obj' = vaco_of[r].obj
       ELSE UNCHANGED <<api_version, account, container, obj>>

\* The assignment that ends hook `op` raises: pre_put assigns the object the
\* controller returned, and its lines after the assignment do not run.
Rejected(op, target) == op = "pre_put" /\ ~vaco_of[target].ok

\* filter_control.execute_filters(target, passed, ...), called straight or
\* from a hook `op`, and what the hook does to the returned object.
ControllerCall(op, target, passed, ret) ==
    \E iter_order \in Perms(DOMAIN passed) : \E fails \in FailChoices(server, passed) :
       LET st == ExecRun(server, passed, iter_order, fails) IN
       \E dump_order \in Perms(DOMAIN st.on_other_server) :
          LET o == ExecResult(objs[target], st, dump_order) IN
          /\ objs' = [objs EXCEPT ![target] =
                        IF st.raised \/ Rejected(op, target) THEN o ELSE AfterCall(op, o)]
          /\ call' = Called(op, target, passed, st,
                            IF Rejected(op, target) THEN "raised" ELSE ret)

\* A call on a handler that has had fewer than `cap` calls.
Frame(cap) ==
    /\ ncalls < cap
    /\ ncalls' = ncalls + 1
    /\ UNCHANGED <<server, sds_containers, account_meta, filter_list, valid,
                   lookups, peer_list, conc_vars, vaco_of,
                   single_vars>>

\* handler.apply_filters_on_pre_get(filter_list)
ApplyFiltersOnPreGet(cap) ==
    /\ Frame(cap)
    /\ LET passed == Selected(filter_list, "on_pre_get") IN
       IF DOMAIN passed # {}
       THEN ControllerCall("pre_get", request, passed, "None")
       ELSE /\ call' = Skipped("pre_get", request, "None")
            /\ UNCHANGED objs
    /\ KeepRequest

\* Slip: the post-get hook runs the controller on the held request.
ApplyFiltersOnPostGetOnRequest(cap) ==
    /\ Frame(cap)
    /\ LET passed == Selected(filter_list, "on_post_get") IN
       IF DOMAIN passed # {}
       THEN ControllerCall("post_get", request, passed, request)
       ELSE /\ call' = Skipped("post_get", "resp", "resp")
            /\ UNCHANGED objs
    /\ KeepRequest

\* handler.apply_filters_on_post_get(resp, filter_list)
ApplyFiltersOnPostGet(cap) ==
    /\ Frame(cap)
    /\ LET passed == Selected(filter_list, "on_post_get") IN
       IF DOMAIN passed # {}
       THEN ControllerCall("post_get", "resp", passed, "resp")
       ELSE /\ call' = Skipped("post_get", "resp", "resp")
            /\ UNCHANGED objs
    /\ KeepRequest

\* handler.apply_filters_on_pre_put(filter_list); the request the handler
\* holds becomes the object the controller returned.
ApplyFiltersOnPrePut(cap) ==
    /\ Frame(cap)
    /\ LET passed == Selected(filter_list, "on_pre_put") IN
       IF DOMAIN passed # {}
       THEN /\ ControllerCall("pre_put", request, passed, "None")
            /\ IF call'.ctl_ret = "raised" THEN KeepRequest ELSE Setter(call'.ctl_ret)
       ELSE /\ call' = Skipped("pre_put", request, "None")
            /\ UNCHANGED objs
            /\ KeepRequest

\* filter_control.execute_filters(req_resp, filter_list, ...) called with
\* the whole filter set, on the request or on the response.
ExecuteFilters(cap) ==
    /\ Frame(cap)
    /\ \E target \in {"req", "resp"} :
          ControllerCall("execute", target, filter_list, target)
    /\ KeepRequest

\* The peer tier receives the object the last call returned and decodes its
\* delegation header into the filter set it will run.
PeerDecode ==
    /\ call.invoked
    /\ call.ctl_ret # "raised"
    /\ objs[call.target].cf.present
    /\ ~peer_list.decoded
    /\ peer_list' = [decoded |-> TRUE, from |-> call.target,
                     filters |-> JsonLoads(objs[call.target].cf)]
    /\ UNCHANGED <<server, sds_containers, container, obj, account_meta,
                   filter_list, objs, request, call, ncalls, valid, lookups,
                   conc_vars, vaco_vars,
                   single_vars>>

Next ==
    \/ ApplyFiltersOnPreGet(MaxCalls)
    \/ ApplyFiltersOnPostGet(MaxCalls)
    \/ ApplyFiltersOnPrePut(MaxCalls)
    \/ ExecuteFilters(MaxCalls)

Spec == Init /\ [][Next]_vars

\* The hooks alone, on filter sets of mixed lifecycle points.
NextHooks ==
    \/ ApplyFiltersOnPreGet(MaxCalls)
    \/ ApplyFiltersOnPostGet(MaxCalls)
    \/ ApplyFiltersOnPrePut(MaxCalls)

SpecHooks == InitHooks /\ [][NextHooks]_vars

\* Sequences of hook calls on one handler: the hooks are public methods
\* without a guard, a caller may call any of them at any time.  The filter
\* sets hold at most two filters.
SeqLists == {fl \in FilterLists : DOMAIN fl \subseteq {IntKey(2), IntKey(3)}}

InitSeq ==
    /\ InitHandler
    /\ InitResolved(SeqLists)

NextSeq ==
    \/ ApplyFiltersOnPreGet(MaxSeq)
    \/ ApplyFiltersOnPostGet(MaxSeq)
    \/ ApplyFiltersOnPrePut(MaxSeq)

SpecSeq == InitSeq /\ [][NextSeq]_vars

\* The delegation wire: a tier runs the controller, the peer decodes the
\* header of what it returned.
NextWire ==
    \/ ExecuteFilters(MaxCalls)
    \/ PeerDecode

SpecWire == Init /\ [][NextWire]_vars

(***************************************************************************)
(* The request property: assignments to handler.request.                   *)
(***************************************************************************)
\* What the path of another Request object parses to.
OtherParses ==
    {ValueError,
     Vaco(PyStr("v1"), PyStr("AUTH_b"), PyStr("pics"), PyStr("p")),
     Vaco(PyStr("v1"), PyStr("AUTH_a"), PyStr("data"), PyNone)}

\* handler.request = r, by any code that holds the handler.
AssignRequest ==
    /\ assigned.n < MaxAssign
    /\ \E r \in DOMAIN vaco_of : Setter(r)
    /\ UNCHANGED <<server, sds_containers, account_meta, filter_list, objs, call,
                   ncalls, valid, lookups, peer_list, conc_vars, vaco_of,
                   single_vars>>

\* A handler, a second Request object, and filter sets of at most one
\* filter.
InitVaco ==
    /\ InitConf
    /\ InitController
    /\ \E other \in OtherParses :
          vaco_of = [r \in {"req", "req2"} |->
                       IF r = "req"
                       THEN Vaco(PyStr("v1"), PyStr("AUTH_a"), PyStr("data"), PyStr("o"))
                       ELSE other]
    /\ InitFields
    /\ server \in Tiers
    /\ filter_list \in {fl \in SeqLists : DOMAIN fl \subseteq {IntKey(2)}}
    /\ \E cl \in {"absent", "present"} :
          objs = [id \in {"req", "req2", "resp"} |->
                    IF id = "resp" THEN NewResponse ELSE NewRequest(NoHeader, cl)]
    /\ request = "req"
    /\ call = NoCall
    /\ ncalls = 0
    /\ peer_list = NotDecoded

NextVaco ==
    \/ AssignRequest
    \/ ApplyFiltersOnPrePut(MaxSeq)

SpecVaco == InitVaco /\ [][NextVaco]_vars

(***************************************************************************)
(* Concurrent calls of execute_filters on the one controller instance.     *)
(* A step is the entry of a call, one iteration of its loop (the engine's  *)
(* call included, during which other threads run) or its exit.             *)
(***************************************************************************)
\* The filter sets of the concurrent calls: at most two filters, keys 2 and
\* 10, any tier and engine.
ConcLists ==
    {fl \in OnePointLists : /\ DOMAIN fl \subseteq {IntKey(2), IntKey(10)}
                            /\ \A k \in DOMAIN fl : fl[k].when = "on_pre_get"}

\* The object a thread's call runs on: each thread has its own.
TargetOf(t) == IF t = "t1" THEN "req" ELSE "resp"

\* Slip: the locals are attributes of the instance, one set for all calls.
FrameOfShared(t) == "t1"

\* Where the locals of thread t's call live: in the call's own frame.
FrameOf(t) == t

\* Thread t calls execute_filters(target, passed, ...): lines 41-52, and
\* the sorted() of line 54.
ExecEnter(t) ==
    /\ threads[t].pc = "idle"
    /\ \E passed \in ConcLists : \E iter_order \in Perms(DOMAIN passed) :
       \E fails \in FailChoices(server, passed) :
          threads' = [threads EXCEPT ![t] =
                        [pc |-> "loop", target |-> TargetOf(t), passed |-> passed,
                         fails |-> fails, keys |-> LoopKeys(iter_order), done |-> 0,
                         before |-> objs[TargetOf(t)]]]
    /\ frames' = [frames EXCEPT ![FrameOf(t)] = ExecInit]
    /\ UNCHANGED <<server, sds_containers, container, obj, account_meta, filter_list,
                   objs, request, call, ncalls, valid, lookups, peer_list,
                   vaco_vars,
                   single_vars>>

\* One iteration of thread t's loop, lines 54-78; an exception of the
\* engine leaves the call.
ExecIterate(t) ==
    /\ threads[t].pc = "loop"
    /\ threads[t].done < Len(threads[t].keys)
    /\ LET key == threads[t].keys[threads[t].done + 1]
           st == ExecStep(server, frames[FrameOf(t)], key, threads[t].passed[key],
                          threads[t].fails)
       IN /\ frames' = [frames EXCEPT ![FrameOf(t)] = st]
          /\ threads' = [threads EXCEPT ![t].done = @ + 1,
                                        ![t].pc = IF st.raised THEN "raised" ELSE "loop"]
    /\ UNCHANGED <<server, sds_containers, container, obj, account_meta, filter_list,
                   objs, request, call, ncalls, valid, lookups, peer_list,
                   vaco_vars,
                   single_vars>>

\* The end of thread t's call, lines 80-89.
ExecExit(t) ==
    /\ threads[t].pc = "loop"
    /\ threads[t].done = Len(threads[t].keys)
    /\ \E dump_order \in Perms(DOMAIN frames[FrameOf(t)].on_other_server) :
          objs' = [objs EXCEPT ![threads[t].target] =
                     ExecResult(@, frames[FrameOf(t)], dump_order)]
    /\ threads' = [threads EXCEPT ![t].pc = "returned"]
    /\ UNCHANGED <<server, sds_containers, container, obj, account_meta, filter_list,
                   frames, request, call, ncalls, valid, lookups, peer_list,
                   vaco_vars,
                   single_vars>>

InitConc ==
    /\ InitHandler
    /\ server \in Tiers
    /\ filter_list = EmptyDict
    /\ InitObjects(NoHeader)

NextConc ==
    \E t \in Threads : ExecEnter(t) \/ ExecIterate(t) \/ ExecExit(t)

SpecConc == InitConc /\ [][NextConc]_vars

(***************************************************************************)
(* Singleton.__call__: CrystalFilterControl(conf, log) called by request   *)
(* threads.  A thread may be switched out between any two of its steps.    *)
(***************************************************************************)
\* The conf arguments of the construction calls.
Confs == {"conf_a", "conf_b"}

\* The variables of the handler and the controller calls.
rest_vars ==
    <<server, sds_containers, container, obj, account_meta, filter_list, objs,
      request, call, ncalls, valid, lookups, peer_list, conc_vars, vaco_vars>>

\* Thread t calls CrystalFilterControl(conf, log).
SingletonCall(t) ==
    /\ ctor[t].pc = "idle"
    /\ ctor[t].calls < MaxCtor
    /\ \E conf \in Confs :
          ctor' = [ctor EXCEPT ![t] = [pc |-> "check", conf |-> conf, made |-> 0,
                                       result |-> 0, calls |-> ctor[t].calls + 1]]
    /\ UNCHANGED <<instances, built, rest_vars>>

\* if cls not in cls._instances:
SingletonCheck(t) ==
    /\ ctor[t].pc = "check"
    /\ ctor' = [ctor EXCEPT ![t].pc = IF Cls \in DOMAIN instances THEN "return"
                                                                  ELSE "construct"]
    /\ UNCHANGED <<instances, built, rest_vars>>

\* super(Singleton, cls).__call__(*args, **kwargs): a new object, its
\* __init__ run with the thread's arguments.
SingletonConstruct(t) ==
    /\ ctor[t].pc = "construct"
    /\ built' = Append(built, [conf |-> ctor[t].conf])
    /\ ctor' = [ctor EXCEPT ![t].pc = "store", ![t].made = Len(built) + 1]
    /\ UNCHANGED <<instances, rest_vars>>

\* cls._instances[cls] = <the new object>
SingletonStore(t) ==
    /\ ctor[t].pc = "store"
    /\ instances' = DictSet(instances, Cls, ctor[t].made)
    /\ ctor' = [ctor EXCEPT ![t].pc = "return"]
    /\ UNCHANGED <<built, rest_vars>>

\* return cls._instances[cls]
SingletonReturn(t) ==
    /\ ctor[t].pc = "return"
    /\ ctor' = [ctor EXCEPT ![t].pc = "idle", ![t].result = instances[Cls]]
    /\ UNCHANGED <<instances, built, rest_vars>>

\* The process has started, no controller has been constructed.
InitSingle ==
    /\ InitConf
    /\ vaco_of = [r \in {"req"} |->
                    Vaco(PyStr("v1"), PyStr("AUTH_a"), PyStr("data"), PyStr("o"))]
    /\ InitFields
    /\ server \in Tiers
    /\ filter_list = EmptyDict
    /\ InitObjects(NoHeader)
    /\ instances = EmptyDict
    /\ built = <<>>
    /\ ctor = [t \in Threads |-> IdleCtor]

NextSingle ==
    \E t \in Threads :
       \/ SingletonCall(t)
       \/ SingletonCheck(t)
       \/ SingletonConstruct(t)
       \/ SingletonStore(t)
       \/ SingletonReturn(t)

SpecSingle == InitSingle /\ [][NextSingle]_vars

(***************************************************************************)
(* Eligibility: CrystalBaseHandler.is_crystal_valid_request                *)
(***************************************************************************)
\* The account has no 'storlet-enabled' metadata.
MetaAbsent == "<absent>"
\* Values of the account's 'storlet-enabled' metadata.
MetaVals == {MetaAbsent, "True", "true", "1", "yes", "False", "0", "enabled"}

\* str.lower() on the metadata values.
Lower(v) == IF v = "True" THEN "true" ELSE IF v = "False" THEN "false" ELSE v

\* swift.common.utils.config_true_value on a str.
TRUE_VALUES == {"true", "1", "yes", "on", "t", "y"}
config_true_value(v) == Lower(v) \in TRUE_VALUES

\* account_meta.get('storlet-enabled', 'False')
MetaGet(meta) == IF meta = MetaAbsent THEN "False" ELSE meta

\* handler.is_account_storlet_enabled()
is_account_storlet_enabled(meta) == config_true_value(MetaGet(meta))

\* Slip: the image container is not in the list.
InSdsContainersFirstTwo(c, sds) == sds[1] = c \/ sds[2] = c

\* self.container in self.sds_containers
InSdsContainers(c, sds) == \E i \in DOMAIN sds : sds[i] = c

\* Slip: the account is looked up on either tier.
StorletEnabledAnyTier(srv, meta) == is_account_storlet_enabled(meta)

\* storlet_enabled of is_crystal_valid_request: looked up on the proxy tier
\* only.
StorletEnabled(srv, meta) ==
    IF srv = "proxy" THEN is_account_storlet_enabled(meta) ELSE TRUE

\* not crystal_container and self.obj and storlet_enabled
ValidValue(srv, sds, c, o, meta) ==
    PyAnd(PyAnd(PyBool(~InSdsContainers(c, sds)), o), PyBool(StorletEnabled(srv, meta)))

\* get_account_info calls one read of the property issues.
LookupsIssued(srv) == IF srv = "proxy" THEN 1 ELSE 0

\* handler.is_crystal_valid_request
IsCrystalValidRequest ==
    /\ valid.n < MaxChecks
    /\ valid' = [n |-> valid.n + 1,
                 value |-> ValidValue(server, sds_containers, container, obj, account_meta)]
    /\ lookups' = lookups + LookupsIssued(server)
    /\ UNCHANGED <<server, sds_containers, container, obj, account_meta,
                   filter_list, objs, request, call, ncalls, peer_list,
                   conc_vars, vaco_vars,
                   single_vars>>

\* conf: the two reserved containers without a default may be unset, the
\* third defaults to 'docker_images'.
SdsConfs ==
    {<<a, b, c>> : a \in {PyNone, PyStr("storlet")},
                   b \in {PyNone, PyStr("dependency")},
                   c \in {PyStr("docker_images"), PyStr("images")}}

\* The container and object a request path parses to.
Containers ==
    {PyNone, PyStr("storlet"), PyStr("dependency"), PyStr("docker_images"),
     PyStr("images"), PyStr("data")}
Objects == {PyNone, PyStr(""), PyStr("o")}

\* A handler of either tier, for any request and account.
InitElig ==
    /\ server \in Tiers
    /\ sds_containers \in SdsConfs
    /\ \E c \in Containers : \E o \in Objects :
          vaco_of = [r \in {"req"} |-> Vaco(PyStr("v1"), PyStr("AUTH_a"), c, o)]
    /\ InitFields
    /\ account_meta \in MetaVals
    /\ InitNoCheck
    /\ InitNoThreads
    /\ InitController
    /\ filter_list = EmptyDict
    /\ InitObjects(NoHeader)

NextElig == IsCrystalValidRequest

SpecElig == InitElig /\ [][NextElig]_vars

(***************************************************************************)
(* Properties.                                                             *)
(***************************************************************************)
\* The last call ran the controller, and the controller returned.
Returned == call.invoked /\ call.ctl_ret # "raised"
\* The keys of the engine invocations of the last call, in order.
LogKeys == [i \in 1..Len(call.st.log) |-> call.st.log[i].key]
\* The filters handed to the controller that are this tier's.
LocalKeys == {k \in DOMAIN call.passed : call.passed[k].execution_server = server}
\* The object the last call ran on, before and after.
Target == objs[call.target]
TargetBefore == call.before[call.target]

\* C1: the engine invocations of one execute_filters call are the filters
\* of the controller's own tier, each once, in ascending key order, whatever
\* the order the input dict iterates in (a call an engine fails in stops at
\* that engine: the invocations are then the ascending local filters up to
\* it).
C1_AscendingLocalOrder ==
    call.invoked =>
        /\ \A i, j \in 1..Len(LogKeys) : i < j => KeyLess(LogKeys[i], LogKeys[j])
        /\ Range(LogKeys) \subseteq LocalKeys
        /\ Returned => Range(LogKeys) = LocalKeys
        /\ \A k \in LocalKeys \ Range(LogKeys) :
              \A i \in 1..Len(LogKeys) : KeyLess(LogKeys[i], k)

C1_Witness ==
    /\ Returned
    /\ call.op = "execute"
    /\ LogKeys = <<IntKey(2), IntKey(10)>>
    /\ DOMAIN call.st.on_other_server = {IntKey(3)}

\* C2: a call that returns has split its filter set in two: the filters
\* whose engine ran, each once, and the filters of on_other_server, kept as
\* they were handed in; no filter is in both, none in neither.
C2_Partition ==
    Returned =>
        /\ Range(LogKeys) \cap DOMAIN call.st.on_other_server = {}
        /\ Range(LogKeys) \cup DOMAIN call.st.on_other_server = DOMAIN call.passed
        /\ Cardinality(Range(LogKeys)) = Len(LogKeys)
        /\ \A k \in DOMAIN call.st.on_other_server :
              call.st.on_other_server[k] = call.passed[k]

C2_Witness ==
    /\ Returned
    /\ Cardinality(DOMAIN call.passed) = 3
    /\ Len(LogKeys) = 1
    /\ Cardinality(DOMAIN call.st.on_other_server) = 2

\* C3: the local filters of one call form a chain: the first engine reads
\* None, each later engine reads the stream the engine before it returned,
\* and the body attached when the call returns is the last engine's stream.
C3_StreamChain ==
    call.invoked =>
        LET log == call.st.log IN
        /\ Len(log) > 0 => log[1].input = NoneStream
        /\ \A i \in 2..Len(log) : log[i].input = log[i - 1].output
        /\ (Returned /\ Len(log) > 0) =>
              log[Len(log)].output =
                 (IF Target.kind = "Request" THEN Target.wsgi_input ELSE Target.app_iter)

C3_Witness ==
    /\ Returned
    /\ Len(call.st.log) = 2
    /\ call.st.log[1].engine = "storlet" /\ call.st.log[2].engine = "native"
    /\ LogKeys = <<IntKey(2), IntKey(10)>>
    /\ DOMAIN call.st.on_other_server = {IntKey(3)}
    /\ Target.kind = "Request"
    /\ Target.wsgi_input.chain = <<IntKey(2), IntKey(10)>>

\* C4: a call that ran a local filter and returned has replaced the input
\* stream of a Request and left its iterator alone, and has replaced the
\* iterator of a response and left its input stream alone; a call that ran
\* no local filter has changed neither.
C4_DirectionalBody ==
    Returned =>
        IF LocalKeys # {}
        THEN IF Target.kind = "Request"
             THEN /\ Target.wsgi_input = call.st.log[Len(call.st.log)].output
                  /\ Target.wsgi_input.src = "engine"
                  /\ Target.app_iter = TargetBefore.app_iter
             ELSE /\ Target.app_iter = call.st.log[Len(call.st.log)].output
                  /\ Target.app_iter.src = "engine"
                  /\ Target.wsgi_input = TargetBefore.wsgi_input
        ELSE /\ Target.wsgi_input = TargetBefore.wsgi_input
             /\ Target.app_iter = TargetBefore.app_iter

C4_Witness ==
    /\ Returned
    /\ LocalKeys # {}
    /\ Target.kind = "Response"
    /\ TargetBefore.app_iter = OrigIter
    /\ Target.app_iter.src = "engine"

\* C5: apply_filters_on_pre_put that returns leaves the request without a
\* content length and with chunked transfer when the filter set holds an
\* on_pre_put filter (run here or delegated), and with the content length
\* and transfer encoding it had when it holds none.
C5_ContentLength ==
    (call.op = "pre_put" /\ call.ret # "raised") =>
        IF \E k \in DOMAIN filter_list : filter_list[k].when = "on_pre_put"
        THEN objs[request].cl = "absent" /\ objs[request].te = "chunked"
        ELSE /\ objs[request].cl = call.before[request].cl
             /\ objs[request].te = call.before[request].te

C5_Witness ==
    /\ call.op = "pre_put" /\ call.ret # "raised"
    /\ call.invoked /\ LocalKeys = {}
    /\ \E k \in DOMAIN filter_list : filter_list[k].when # "on_pre_put"
    /\ call.before[request].cl = "present"
    /\ objs[request].cl = "absent" /\ objs[request].te = "chunked"

\* The handler's container is one of its three reserved containers.
ReservedContainer ==
    container = sds_containers[1] \/ container = sds_containers[2] \/ container = sds_containers[3]
\* The request has no object component.
NoObject == obj = PyNone \/ obj = PyStr("")

\* C6: is_crystal_valid_request is falsy for a request to any of the three
\* reserved containers, and for a request without an object, on either tier
\* and whatever the account's metadata.
C6_EligibilityExclusions ==
    valid.n > 0 =>
        /\ ReservedContainer => ~Truthy(valid.value)
        /\ NoObject => ~Truthy(valid.value)

C6_Witness ==
    /\ valid.n > 0
    /\ server = "object"
    /\ account_meta = "True"
    /\ obj = PyStr("o")
    /\ container = PyStr("images") /\ sds_containers[3] = PyStr("images")
    /\ ~Truthy(valid.value)

\* C7: on the proxy tier a request is eligible only if the account's
\* metadata says enabled (no entry counts as disabled), one lookup a read; on
\* the object tier no lookup is issued and a request is eligible exactly when
\* it names an object outside the reserved containers.
C7_TierEligibility ==
    valid.n > 0 =>
        IF server = "proxy"
        THEN /\ Truthy(valid.value) => account_meta \in {"True", "true", "1", "yes"}
             /\ account_meta = MetaAbsent => ~Truthy(valid.value)
             /\ lookups = valid.n
        ELSE /\ lookups = 0
             /\ Truthy(valid.value) <=> (~ReservedContainer /\ ~NoObject)

C7_Witness ==
    /\ valid.n > 0
    /\ server = "object"
    /\ account_meta = "False"
    /\ lookups = 0
    /\ Truthy(valid.value)

\* The names the delegation header of the object the last call ran on holds.
HeaderNames ==
    {Target.cf.items[i].k : i \in DOMAIN Target.cf.items}

\* C8: the delegated map written into the header and decoded by the peer
\* is the delegated map: the same keys, the same filter under each key.
C8_RoundTripSameMap ==
    peer_list.decoded => peer_list.filters = call.st.on_other_server

\* C9: after a call returns, the delegation header of the object names no
\* filter the call ran and every filter it did not run, whatever header the
\* object carried on entry.
C9_HeaderNamesExactlyDelegated ==
    Returned =>
        /\ \A k \in Range(LogKeys) : JsonName(k) \notin HeaderNames
        /\ \A k \in DOMAIN call.passed \ Range(LogKeys) : JsonName(k) \in HeaderNames

\* The lifecycle point of a hook.
PointOf(op) ==
    IF op = "pre_get" THEN "on_pre_get"
    ELSE IF op = "post_get" THEN "on_post_get" ELSE "on_pre_put"
\* The last call had nothing to run: the controller was handed an empty
\* set, or the hook a set with no filter of its lifecycle point.
NothingToRun ==
    IF call.op = "execute" THEN DOMAIN filter_list = {}
    ELSE /\ call.op # "none"
         /\ ~\E k \in DOMAIN filter_list : filter_list[k].when = PointOf(call.op)

PointKeys == {k \in DOMAIN filter_list : filter_list[k].when = PointOf(call.op)}

FailedKey == call.st.log[Len(call.st.log)].key

\* C12: an engine failure leaves execute_filters as a FilterExecutionError
\* that carries the 'main' of the filter whose engine failed; the failing
\* engine is the last one invoked and no engine is invoked twice.
C12_FilterExecutionError ==
    (call.invoked /\ call.st.raised) =>
        /\ call.st.exc.cls = "FilterExecutionError"
        /\ call.st.exc.main = call.passed[FailedKey].main
        /\ call.st.log[Len(call.st.log)].output = NoOutput
        /\ Cardinality(Range(LogKeys)) = Len(LogKeys)

\* C13: the hooks that ran filters on one handler are one pre_put and
\* nothing else, or a pre_get, a post_get, or a pre_get then a post_get:
\* never a PUT hook with a GET hook, never post_get before pre_get, no hook
\* twice.
C13_LifecycleOrder ==
    call.fired \in {<<>>, <<"pre_put">>, <<"pre_get">>, <<"post_get">>,
                    <<"pre_get", "post_get">>}

\* What thread t's call computes when it runs alone: the locals after its
\* first n iterations, and the objects it can return.
AloneLocals(t, n) ==
    ExecLoop(server, SubSeq(threads[t].keys, 1, n), threads[t].passed,
             threads[t].fails, ExecInit)
AloneResults(t) ==
    {ExecResult(threads[t].before, AloneLocals(t, Len(threads[t].keys)), d) :
        d \in Perms(DOMAIN AloneLocals(t, Len(threads[t].keys)).on_other_server)}

\* C14: calls of execute_filters that run concurrently on the one
\* controller do not interfere: at every step the locals of each call (the
\* engines invoked and their order, the chained stream, the delegated map,
\* the gateway) are what the call computes alone, the object of a call that
\* returned carries the header and body of the call run alone, and the
\* object of a call an engine raised in is as it was handed in.
C14_NoInterference ==
    \A t \in Threads :
        /\ threads[t].pc # "idle" => frames[t] = AloneLocals(t, threads[t].done)
        /\ threads[t].pc = "returned" => objs[threads[t].target] \in AloneResults(t)
        /\ threads[t].pc \in {"loop", "raised"} =>
              objs[threads[t].target] = threads[t].before

C14_Witness ==
    /\ threads["t1"].pc = "returned" /\ threads["t2"].pc = "returned"
    /\ Len(frames["t1"].log) = 2 /\ Len(frames["t2"].log) = 1
    /\ frames["t1"].storlet_gw /\ frames["t2"].storlet_gw
    /\ DOMAIN frames["t2"].on_other_server = {IntKey(10)}
    /\ objs["req"].wsgi_input.chain = <<IntKey(2), IntKey(10)>>
    /\ objs["resp"].app_iter.chain = <<IntKey(2)>>
    /\ objs["resp"].cf.present

\* C15: the four derived fields are at all times the parse of the request
\* the handler holds; an assignment to handler.request ends in
\* NotCrystalRequest exactly when the parse of the assigned request raises
\* ValueError, and then the handler does not hold the assigned request with
\* the fields it had before.
C15_FieldsFollowRequest ==
    /\ vaco_of[request] = Vaco(api_version, account, container, obj)
    /\ assigned.n > 0 =>
          /\ (assigned.exc = "NotCrystalRequest") <=> ~vaco_of[assigned.to].ok
          /\ assigned.exc = "NotCrystalRequest" =>
                ~(/\ request = assigned.to
                  /\ <<api_version, account, container, obj>> = assigned.old)

\* C16: a call an engine fails in stops there: no filter with a key after
\* the failing filter's is invoked, and the object keeps the delegation
\* header and the body it was handed in with, whatever was collected for
\* delegation or produced by earlier engines before the failure.
C16_FailFast ==
    (call.invoked /\ call.st.raised) =>
        /\ call.st.log[Len(call.st.log)].output = NoOutput
        /\ \A k \in DOMAIN call.passed :
              KeyLess(FailedKey, k) =>
                 k \notin Range(LogKeys) \cup DOMAIN call.st.on_other_server
        /\ Target.cf = TargetBefore.cf
        /\ Target.wsgi_input = TargetBefore.wsgi_input
        /\ Target.app_iter = TargetBefore.app_iter

C16_Witness ==
    /\ call.invoked /\ call.st.raised
    /\ DOMAIN call.passed = {IntKey(2), IntKey(3), IntKey(10)}
    /\ FailedKey = IntKey(3)
    /\ DOMAIN call.st.on_other_server = {IntKey(2)}
    /\ IntKey(10) \in LocalKeys
    /\ ~Target.cf.present
    /\ Target.kind = "Request" /\ Target.wsgi_input = OrigInput

\* C17: when an engine's failure leaves execute_filters, every resource
\* the call opened (the current stream, the storlet gateway) has been
\* released by the controller.
C17_ReleasedOnError ==
    (call.invoked /\ call.st.raised) =>
        Opened(call.st) \subseteq ClosedOnError(call.st)

\* C18: a hook call leaves the resolved filter set as it was, key for key
\* and field for field; the map the hook hands the controller and the map
\* the controller collects for delegation hold, under the keys of the
\* resolved set, the filters of the resolved set unchanged.
C18_FilterSetUnmutated ==
    [][/\ filter_list' = filter_list
       /\ \A k \in DOMAIN call'.passed :
             k \in DOMAIN filter_list /\ call'.passed[k] = filter_list[k]
       /\ \A k \in DOMAIN call'.st.on_other_server :
             k \in DOMAIN filter_list /\ call'.st.on_other_server[k] = filter_list[k]
      ]_vars

C18_Witness ==
    /\ call.op = "pre_get" /\ Returned
    /\ Cardinality(DOMAIN filter_list) = 3
    /\ Cardinality(DOMAIN call.passed) = 2
    /\ Len(LogKeys) = 1
    /\ Cardinality(DOMAIN call.st.on_other_server) = 1
    /\ \A k \in DOMAIN call.st.on_other_server :
          call.st.on_other_server[k] = filter_list[k]

\* The last call ran on a filter set decoded from a delegation header.
PeerCall ==
    /\ call.invoked
    /\ DOMAIN call.passed # {}
    /\ \A k \in DOMAIN call.passed : k.t = "str"

\* C19: the peer tier, running the filters it decoded from the delegation
\* header, invokes them in the order of the ordering keys they had on the
\* delegating tier: ascending as integers.
C19_PeerKeepsOrder ==
    PeerCall =>
        \A i, j \in 1..Len(LogKeys) : i < j => LogKeys[i].v < LogKeys[j].v

\* C20: at most one CrystalFilterControl is ever constructed, every
\* construction call returns that one instance, and it is configured with
\* the arguments of a call that found no instance stored, however the
\* threads' calls interleave.
C20_OneInstance ==
    /\ Len(built) <= 1
    /\ \A t \in Threads : ctor[t].result # 0 => ctor[t].result = 1
    /\ \A t \in Threads : ctor[t].pc = "return" => Cls \in DOMAIN instances

=============================================================================
